---------------------------- MODULE Spec2Model ----------------------------
(* A model of src/arepas.py: the training-dataset pipeline                  *)
(*   load x3 -> filter_cooking_data -> filter_faulty_intervals -> pd_merge   *)
(*   -> group_by_hourly_average_cooking_metrics -> filter_by_arepa_type      *)
(*   -> to_csv.                                                              *)
(* Tables (DataFrames) are sequences of row records kept in an object store  *)
(* (heap); the local names of generate_training_dataset hold references.     *)
(* Instants are minutes since midnight; the text of an instant (a CSV cell,  *)
(* a command-line argument) is its <<hour, minute>> fields; numeric cells    *)
(* are exact rationals.                                                      *)
EXTENDS Integers, Sequences, FiniteSets, TLC

VARIABLES
    files,              \* the three input files: [exists, rows] per path
    args,               \* the parsed command line (argparse namespace)
    writable,           \* whether the output path can be written
    pc,                 \* position in __main__ / generate_training_dataset
    heap,               \* object store: heap[o] is the table of DataFrame o
    cooking_metrics,    \* locals of generate_training_dataset (references, 0 = unbound)
    faulty_intervals,
    batch_registry,
    start_datetime,
    end_datetime,
    filtered_metrics,
    merged_data,
    hourly_avg_metrics,
    result_dataset,
    fi_metrics,         \* filter_faulty_intervals' own local name filtered_metrics
    error,              \* the exception that left the program (NoError = none)
    log,                \* the records the logger emitted, in order
    output              \* the files written to the output path, in order

vars == <<files, args, writable, pc, heap, cooking_metrics, faulty_intervals,
          batch_registry, start_datetime, end_datetime, filtered_metrics,
          merged_data, hourly_avg_metrics, result_dataset, fi_metrics,
          error, log, output>>

-----------------------------------------------------------------------------
(* Bounds of the model.                                                      *)
MaxRows == 2
MaxIntervals == 2
MaxRegistry == 2

-----------------------------------------------------------------------------
(* Values.                                                                   *)

\* pandas' missing instant: what pd_to_datetime(errors='coerce') yields for a
\* cell it cannot parse.
NaT == -1

\* frequency 'h': the bucket width, in minutes.
HourMinutes == 60

\* A missing cell of a text column: read_csv reads the text NaN (and the empty
\* cell) as missing.
NaNStr == "NaN"

\* Numeric cells: exact rationals num/den; den = 0 is the missing number NaN.
Num(n) == [num |-> n, den |-> 1]

NaN == [num |-> 0, den |-> 0]

IsNaN(x) == x.den = 0

RECURSIVE Gcd(_, _)
Gcd(a, b) == IF b = 0 THEN a ELSE Gcd(b, a % b)

Rat(n, d) == LET g == Gcd(n, d) IN [num |-> n \div g, den |-> d \div g]

RatAdd(x, y) == Rat(x.num * y.den + y.num * x.den, x.den * y.den)

\* Comparisons as pandas makes them: any comparison with a missing value is False.
Ge(a, b) == a # NaT /\ b # NaT /\ a >= b

Le(a, b) == a # NaT /\ b # NaT /\ a <= b

StrEq(a, b) == a # NaNStr /\ b # NaNStr /\ a = b

-----------------------------------------------------------------------------
(* DataFrame primitives.                                                     *)

\* The rows of t at the positions where mask is True, in order.
SelectRows(t, mask) ==
    LET idx == SelectSeq([i \in 1..Len(t) |-> i], LAMBDA i : mask[i])
    IN  [k \in 1..Len(idx) |-> t[idx[k]]]

\* A variant that filters the indexed frame in place as well as returning the
\* selection (what DataFrame.drop(..., inplace=True) would do).
GetitemInPlace(h, o, mask) ==
    Append([h EXCEPT ![o] = SelectRows(h[o], mask)], SelectRows(h[o], mask))

\* df[mask]: boolean indexing allocates a new frame and leaves df alone.  The
\* new frame's reference is Len of the returned heap.
Getitem(h, o, mask) == Append(h, SelectRows(h[o], mask))

-----------------------------------------------------------------------------
(* load_dataset.                                                             *)

NoError == [type |-> "", path |-> ""]

\* The text <<hour, minute>> names an instant when its fields are in range.
ValidInstantText(c) == c[1] \in 0..23 /\ c[2] \in 0..(HourMinutes - 1)

\* pd_to_datetime(cell, errors='coerce').
pd_to_datetime(c) == IF ValidInstantText(c) THEN c[1] * HourMinutes + c[2] ELSE NaT

\* pd_import_csv: the rows of the file, or FileNotFoundError for a missing one.
pd_import_csv(path) ==
    IF files[path].exists
    THEN [exc |-> NoError, rows |-> files[path].rows]
    ELSE [exc |-> [type |-> "FileNotFoundError", path |-> path], rows |-> <<>>]

\* A variant of load_dataset that logs the missing file and carries on with an
\* empty table instead of raising.
load_dataset_swallow(path, date_columns) ==
    LET r == pd_import_csv(path)
    IN  [exc  |-> NoError,
         rows |-> [i \in 1..Len(r.rows) |->
                     [c \in DOMAIN r.rows[i] |->
                        IF c \in date_columns THEN pd_to_datetime(r.rows[i][c])
                        ELSE r.rows[i][c]]]]

\* load_dataset: the FileNotFoundError of pd_import_csv is raised again as it
\* is; otherwise every date column the file has is coerced, cell by cell.
load_dataset(path, date_columns) ==
    LET r == pd_import_csv(path)
    IN  IF r.exc.type = "FileNotFoundError"
        THEN [exc |-> r.exc, rows |-> <<>>]
        ELSE [exc  |-> NoError,
              rows |-> [i \in 1..Len(r.rows) |->
                          [c \in DOMAIN r.rows[i] |->
                             IF c \in date_columns THEN pd_to_datetime(r.rows[i][c])
                             ELSE r.rows[i][c]]]]

DateColumns == {"timestamp", "start_time", "end_time"}

\* datetime.fromisoformat: the instant, or ValueError for text that is no instant.
fromisoformat(c) ==
    IF ValidInstantText(c)
    THEN [exc |-> NoError, value |-> c[1] * HourMinutes + c[2]]
    ELSE [exc |-> [type |-> "ValueError", path |-> ""], value |-> NaT]

-----------------------------------------------------------------------------
(* The stages, as functions of the object store.                             *)

\* A window test that leaves the end of the range out.
InWindowExclusive(r, machine, start_time, end_time) ==
    /\ StrEq(r.machine_id, machine)
    /\ Ge(r.timestamp, start_time)
    /\ r.timestamp # NaT /\ r.timestamp < end_time

\* The row test of filter_cooking_data.
InWindow(r, machine, start_time, end_time) ==
    /\ StrEq(r.machine_id, machine)
    /\ Ge(r.timestamp, start_time)
    /\ Le(r.timestamp, end_time)

\* filter_cooking_data: the heap after the call; the result is its last object.
filter_cooking_data(h, cm, machine, start_time, end_time) ==
    Getitem(h, cm, [i \in 1..Len(h[cm]) |->
                      InWindow(h[cm][i], machine, start_time, end_time)])

\* A mask that leaves the end of the interval out.
FaultyMaskOpenEnd(t, row) ==
    [i \in 1..Len(t) |-> Ge(t[i].timestamp, row.start_time)
                          /\ Le(t[i].timestamp, row.end_time)
                          /\ t[i].timestamp # row.end_time]

\* faulty_mask of one interval row over the frame t.
FaultyMask(t, row) ==
    [i \in 1..Len(t) |-> Ge(t[i].timestamp, row.start_time)
                          /\ Le(t[i].timestamp, row.end_time)]

Negate(mask) == [i \in 1..Len(mask) |-> ~mask[i]]

\* A pass that forgets the negation: it keeps the faulty rows.
FaultyIterationKeepFaulty(h, fm, row, machine_id) ==
    IF StrEq(row.machine_id, machine_id)
    THEN LET h2 == Getitem(h, fm, FaultyMask(h[fm], row))
         IN  [heap |-> h2, ref |-> Len(h2)]
    ELSE [heap |-> h, ref |-> fm]

\* A pass that does not look at the interval's machine.
FaultyIterationAnyMachine(h, fm, row, machine_id) ==
    LET h2 == Getitem(h, fm, Negate(FaultyMask(h[fm], row)))
    IN  [heap |-> h2, ref |-> Len(h2)]

\* One pass of the loop of filter_faulty_intervals over the interval row: the
\* heap and the frame the local name filtered_metrics is bound to afterwards.
FaultyIteration(h, fm, row, machine_id) ==
    IF StrEq(row.machine_id, machine_id)
    THEN LET h2 == Getitem(h, fm, Negate(FaultyMask(h[fm], row)))
         IN  [heap |-> h2, ref |-> Len(h2)]
    ELSE [heap |-> h, ref |-> fm]

\* A loop whose every pass indexes the frame given at the call, not the frame
\* the previous pass left.
FaultyLoopFromArgument(h, fm, intervals, machine_id, k) ==
    LET G[j \in (k - 1)..Len(intervals)] ==
            IF j = k - 1 THEN [heap |-> h, ref |-> fm]
            ELSE IF StrEq(intervals[j].machine_id, machine_id)
            THEN LET h2 == Getitem(G[j - 1].heap, fm,
                                   Negate(FaultyMask(h[fm], intervals[j])))
                 IN  [heap |-> h2, ref |-> Len(h2)]
            ELSE G[j - 1]
    IN  G[Len(intervals)]

\* filter_faulty_intervals as a whole: the loop from interval k on; the heap
\* and the frame the local name filtered_metrics is bound to at the return.
RECURSIVE FaultyLoop(_, _, _, _, _)
FaultyLoop(h, fm, intervals, machine_id, k) ==
    IF k > Len(intervals) THEN [heap |-> h, ref |-> fm]
    ELSE LET s == FaultyIteration(h, fm, intervals[k], machine_id)
         IN  FaultyLoop(s.heap, s.ref, intervals, machine_id, k + 1)

\* The rows filter_faulty_intervals returns for the tables given.
filter_faulty_intervals(intervals, metrics, machine_id) ==
    LET s == FaultyLoop(<<metrics>>, 1, intervals, machine_id, 1)
    IN  s.heap[s.ref]

-----------------------------------------------------------------------------
(* pd_merge(filtered_metrics, batch_registry, on='batch_id').                *)

\* The joined rows of one left row: one per right row with the same key, in
\* the order of the right frame.  The key column appears once.
JoinRow(l, right) ==
    LET m == SelectSeq(right, LAMBDA r : r.batch_id = l.batch_id)
    IN  [k \in 1..Len(m) |->
           [machine_id |-> l.machine_id, timestamp |-> l.timestamp,
            batch_id |-> l.batch_id, metric_1 |-> l.metric_1,
            metric_2 |-> l.metric_2, arepa_type |-> m[k].arepa_type]]

RECURSIVE JoinFrom(_, _, _)
JoinFrom(left, right, i) ==
    IF i > Len(left) THEN <<>>
    ELSE JoinRow(left[i], right) \o JoinFrom(left, right, i + 1)

\* A left join: a left row without a match is kept, with a missing arepa_type.
pd_merge_left(left, right) ==
    LET Keep(l) == IF \E j \in 1..Len(right) : right[j].batch_id = l.batch_id
                   THEN JoinRow(l, right)
                   ELSE <<[machine_id |-> l.machine_id, timestamp |-> l.timestamp,
                           batch_id |-> l.batch_id, metric_1 |-> l.metric_1,
                           metric_2 |-> l.metric_2, arepa_type |-> NaNStr]>>
        F[i \in 1..(Len(left) + 1)] ==
            IF i > Len(left) THEN <<>> ELSE Keep(left[i]) \o F[i + 1]
    IN  F[1]

\* The inner join (how='inner' is pd_merge's default), in the order of the left
\* frame.
pd_merge(left, right) == JoinFrom(left, right, 1)

-----------------------------------------------------------------------------
(* group_by_hourly_average_cooking_metrics.                                  *)

\* The bin pd_Grouper(freq='h') puts an instant in: the start of its hour.
Bucket(ts) == ts - (ts % HourMinutes)

\* The text values of the model in byte order, for the sort of the group keys.
StrOrder == <<"Classic", "arepa", "classic", "queso">>

StrRank(s) == CHOOSE i \in 1..Len(StrOrder) : StrOrder[i] = s

KeyLess(a, b) ==
    \/ a[1] < b[1]
    \/ a[1] = b[1] /\ StrRank(a[2]) < StrRank(b[2])

\* The set of keys as a sequence in ascending order (groupby sorts its keys).
RECURSIVE SortKeys(_)
SortKeys(S) ==
    IF S = {} THEN <<>>
    ELSE LET least == CHOOSE a \in S : \A b \in S \ {a} : KeyLess(a, b)
         IN  <<least>> \o SortKeys(S \ {least})

RECURSIVE RatSum(_)
RatSum(xs) == IF xs = <<>> THEN Num(0) ELSE RatAdd(xs[1], RatSum(Tail(xs)))

\* A mean that counts the missing values in the denominator.
MeanCountingMissing(xs) ==
    LET present == SelectSeq(xs, LAMBDA x : ~IsNaN(x))
    IN  IF present = <<>> THEN NaN
        ELSE LET sum == RatSum(present)
             IN  Rat(sum.num, sum.den * Len(xs))

\* 'mean': the sum of the values present over their count; NaN when none is.
Mean(xs) ==
    LET present == SelectSeq(xs, LAMBDA x : ~IsNaN(x))
    IN  IF present = <<>> THEN NaN
        ELSE LET sum == RatSum(present)
             IN  Rat(sum.num, sum.den * Len(present))

\* The group key of a row; rows whose key has a missing part are in no group
\* (groupby's dropna=True).
HasKey(r) == r.timestamp # NaT /\ r.arepa_type # NaNStr

KeyOf(r) == <<Bucket(r.timestamp), r.arepa_type>>

Column(t, c) == [i \in 1..Len(t) |-> t[i][c]]

\* A grouping by the hour alone, the product type taken from the first member.
GroupByHourOnly(t) ==
    LET keyed == SelectSeq(t, LAMBDA r : HasKey(r))
        hours == SortKeys({<<Bucket(keyed[i].timestamp), "arepa">> : i \in 1..Len(keyed)})
    IN  [k \in 1..Len(hours) |->
           LET members == SelectSeq(keyed, LAMBDA r : Bucket(r.timestamp) = hours[k][1])
           IN  [timestamp |-> hours[k][1], arepa_type |-> members[1].arepa_type,
                metric_1 |-> Mean(Column(members, "metric_1")),
                metric_2 |-> Mean(Column(members, "metric_2"))]]

\* groupby([Grouper(timestamp, 'h'), 'arepa_type']).agg(mean).reset_index():
\* one row per key that occurs, keys ascending.
group_by_hourly_average_cooking_metrics(t) ==
    LET keyed == SelectSeq(t, LAMBDA r : HasKey(r))
        keys  == SortKeys({KeyOf(keyed[i]) : i \in 1..Len(keyed)})
    IN  [k \in 1..Len(keys) |->
           LET members == SelectSeq(keyed, LAMBDA r : KeyOf(r) = keys[k])
           IN  [timestamp |-> keys[k][1], arepa_type |-> keys[k][2],
                metric_1 |-> Mean(Column(members, "metric_1")),
                metric_2 |-> Mean(Column(members, "metric_2"))]]

-----------------------------------------------------------------------------
(* filter_by_arepa_type.                                                     *)

\* The text with its letters in lower case, for the texts of the model.
Lower(s) == IF s = "Classic" THEN "classic" ELSE s

\* A match that ignores the case of the letters.
TypeMatchesIgnoringCase(r, arepa) == StrEq(Lower(r.arepa_type), Lower(arepa))

\* The row test of filter_by_arepa_type: equality of the texts.
TypeMatches(r, arepa) == StrEq(r.arepa_type, arepa)

\* filter_by_arepa_type: the heap after the call; the result is its last object.
filter_by_arepa_type(h, md, arepa) ==
    Getitem(h, md, [i \in 1..Len(h[md]) |-> TypeMatches(h[md][i], arepa)])

-----------------------------------------------------------------------------
(* The inputs of a run: the three files, the output path, the command line.  *)

MetricRow(m, ts, b, m1, m2) ==
    [machine_id |-> m, timestamp |-> ts, batch_id |-> b, metric_1 |-> m1, metric_2 |-> m2]

IntervalRow(m, s, e) == [machine_id |-> m, start_time |-> s, end_time |-> e]

RegistryRow(b, t) == [batch_id |-> b, arepa_type |-> t]

File(rows) == [exists |-> TRUE, rows |-> rows]

MissingFile == [exists |-> FALSE, rows |-> <<>>]

Input(cm, fi, br, m, at, st, et) ==
    [cooking |-> File(cm), faulty |-> File(fi), batch |-> File(br), writable |-> TRUE,
     machine |-> m, arepa_type |-> at, start_time |-> st, end_time |-> et]

\* The sequences over S of length at most n.
SeqsUpTo(S, n) == UNION {[1..k -> S] : k \in 0..n}

\* The end-to-end scenario of the specification, section 8.
ScenarioMetrics ==
    <<MetricRow("M1", <<10, 15>>, "B1", Num(2), Num(4)),
      MetricRow("M1", <<10, 45>>, "B1", Num(3), Num(5)),
      MetricRow("M1", <<11, 5>>, "B1", Num(10), Num(10))>>

ScenarioFaulty == <<IntervalRow("M1", <<11, 0>>, <<11, 30>>)>>

ScenarioRegistry == <<RegistryRow("B1", "classic")>>

ScenarioInput ==
    Input(ScenarioMetrics, ScenarioFaulty, ScenarioRegistry,
          "M1", "classic", <<10, 0>>, <<12, 0>>)

\* The scenario and its neighbours: its metric rows in every order and every
\* selection, with and without the faulty interval, with another product.
ScenarioInputs ==
    {Input(cm, fi, br, "M1", at, <<10, 0>>, <<12, 0>>) :
        cm \in {[i \in 1..Len(p) |-> ScenarioMetrics[p[i]]] :
                  p \in {q \in SeqsUpTo(1..3, 3) :
                            \A i, j \in 1..Len(q) : i # j => q[i] # q[j]}},
        fi \in {<<>>, ScenarioFaulty},
        br \in {ScenarioRegistry, <<RegistryRow("B1", "queso")>>},
        at \in {"classic", "queso"}}

\* Runs that fail: a missing input file, an output path that cannot be
\* written, a command-line instant that is no ISO text.
FailingInputs ==
    {[ScenarioInput EXCEPT !.cooking = c, !.faulty = f, !.batch = b, !.writable = w,
                           !.start_time = st, !.end_time = et] :
        c \in {File(ScenarioMetrics), MissingFile},
        f \in {File(ScenarioFaulty), MissingFile},
        b \in {File(ScenarioRegistry), MissingFile},
        w \in BOOLEAN,
        st \in {<<10, 0>>, <<10, 60>>},
        et \in {<<12, 0>>, <<24, 0>>}}

\* Time-window inputs: rows of two machines, before, on, inside and after the
\* window's ends, and with a cell that is no instant.
WindowInputs ==
    {Input(cm, ScenarioFaulty, ScenarioRegistry, m, "classic", w[1], w[2]) :
        cm \in SeqsUpTo({MetricRow(rm, ts, "B1", Num(2), Num(4)) :
                            rm \in {"M1", "M2"},
                            ts \in {<<10, 0>>, <<10, 15>>, <<10, 45>>, <<11, 5>>,
                                    <<11, 45>>, <<99, 99>>}}, MaxRows),
        m \in {"M1", "M2"},
        w \in {<<<<10, 15>>, <<11, 5>>>>, <<<<10, 45>>, <<10, 45>>>>,
               <<<<11, 5>>, <<10, 15>>>>}}

\* Faulty-interval inputs: intervals of two machines, overlapping, nested,
\* of a single instant, reversed, and with an end that is no instant.
FaultyInputs ==
    {Input(cm, fi, ScenarioRegistry, "M1", "classic", <<10, 0>>, <<12, 0>>) :
        cm \in SeqsUpTo({MetricRow("M1", ts, "B1", Num(2), Num(4)) :
                            ts \in {<<10, 15>>, <<10, 45>>, <<11, 5>>, <<11, 30>>}},
                        MaxRows),
        fi \in SeqsUpTo({IntervalRow("M1", <<10, 45>>, <<10, 45>>),
                         IntervalRow("M1", <<10, 15>>, <<11, 5>>),
                         IntervalRow("M1", <<11, 0>>, <<11, 30>>),
                         IntervalRow("M1", <<11, 5>>, <<10, 15>>),
                         IntervalRow("M1", <<10, 45>>, <<99, 99>>),
                         IntervalRow("M2", <<10, 45>>, <<10, 45>>),
                         IntervalRow("M2", <<10, 15>>, <<11, 5>>)}, MaxIntervals)}

\* Join inputs: registries with repeated, missing and unused batch ids.
JoinInputs ==
    {Input(cm, <<>>, br, "M1", "classic", <<10, 0>>, <<12, 0>>) :
        cm \in SeqsUpTo({MetricRow("M1", <<10, 15>>, "B1", Num(2), Num(4)),
                         MetricRow("M1", <<10, 45>>, "B2", Num(3), Num(5)),
                         MetricRow("M1", <<11, 5>>, "B3", Num(10), Num(10)),
                         MetricRow("M1", <<11, 5>>, "B1", Num(3), NaN)}, MaxRows),
        br \in SeqsUpTo({RegistryRow(b, t) : b \in {"B1", "B2"},
                                             t \in {"classic", "queso", NaNStr}},
                        MaxRegistry)}

\* Aggregation inputs: rows of two hours and two batches, with missing
\* metric cells; registries with one, two and missing product types, and one
\* that names a batch twice.
AggInputs ==
    {Input(cm, fi, br, "M1", at, <<10, 0>>, <<12, 0>>) :
        cm \in SeqsUpTo({MetricRow("M1", ts, b, mm[1], mm[2]) :
                            ts \in {<<10, 15>>, <<10, 45>>, <<11, 5>>},
                            b \in {"B1", "B2"},
                            mm \in {<<Num(2), Num(4)>>, <<Num(3), NaN>>}}, MaxRows),
        fi \in {<<>>, ScenarioFaulty},
        br \in {<<RegistryRow("B1", "classic"), RegistryRow("B2", "queso")>>,
                <<RegistryRow("B1", "classic"), RegistryRow("B2", "classic")>>,
                <<RegistryRow("B1", "classic"), RegistryRow("B2", NaNStr)>>,
                <<RegistryRow("B1", "Classic"), RegistryRow("B2", "classic")>>,
                <<RegistryRow("B1", "classic"), RegistryRow("B1", NaNStr)>>},
        at \in {"classic", "queso", "arepa"}}

-----------------------------------------------------------------------------
(* The program.                                                              *)

CookingPath == "input_dataset/cooking_metrics.csv"

FaultyPath == "input_dataset/faulty_intervals.csv"

BatchPath == "input_dataset/batch_registry.csv"

\* The state at the start of __main__, for the run with input x.
InitFrom(Inputs) ==
    \E x \in Inputs :
        /\ files = (CookingPath :> x.cooking) @@ (FaultyPath :> x.faulty)
                    @@ (BatchPath :> x.batch)
        /\ args = [cooking_metrics |-> CookingPath, faulty_intervals |-> FaultyPath,
                   batch_registry |-> BatchPath, machine |-> x.machine,
                   arepa_type |-> x.arepa_type, start_time |-> x.start_time,
                   end_time |-> x.end_time]
        /\ writable = x.writable
        /\ pc = "load_cooking"
        /\ heap = <<>>
        /\ cooking_metrics = 0 /\ faulty_intervals = 0 /\ batch_registry = 0
        /\ start_datetime = NaT /\ end_datetime = NaT
        /\ filtered_metrics = 0 /\ merged_data = 0
        /\ hourly_avg_metrics = 0 /\ result_dataset = 0
        /\ fi_metrics = 0
        /\ error = NoError
        /\ log = <<"Starting training dataset generation">>
        /\ output = <<>>

environment == <<files, args, writable>>

loads == <<cooking_metrics, faulty_intervals, batch_registry>>

instants == <<start_datetime, end_datetime>>

stages == <<filtered_metrics, merged_data, hourly_avg_metrics, result_dataset>>

callee == <<fi_metrics>>

\* An exception leaves the program: nothing after the raise runs.
Abort(exc, record) ==
    /\ pc' = "aborted"
    /\ error' = exc
    /\ log' = IF record = "" THEN log ELSE Append(log, record)

\* cooking_metrics = load_dataset(cooking_path, ...), and the record logged.
LoadCooking ==
    /\ pc = "load_cooking"
    /\ LET r == load_dataset(args.cooking_metrics, DateColumns)
       IN  IF r.exc # NoError
           THEN /\ Abort(r.exc, "Error loading the file")
                /\ UNCHANGED <<heap, cooking_metrics>>
           ELSE /\ heap' = Append(heap, r.rows)
                /\ cooking_metrics' = Len(heap) + 1
                /\ log' = Append(log, "Cooking metrics")
                /\ pc' = "load_faulty"
                /\ UNCHANGED error
    /\ UNCHANGED <<environment, faulty_intervals, batch_registry, instants, stages,
                   callee, output>>

\* faulty_intervals = load_dataset(faulty_path, ...).
LoadFaulty ==
    /\ pc = "load_faulty"
    /\ LET r == load_dataset(args.faulty_intervals, DateColumns)
       IN  IF r.exc # NoError
           THEN /\ Abort(r.exc, "Error loading the file")
                /\ UNCHANGED <<heap, faulty_intervals>>
           ELSE /\ heap' = Append(heap, r.rows)
                /\ faulty_intervals' = Len(heap) + 1
                /\ log' = Append(log, "Faulty intervals")
                /\ pc' = "load_batch"
                /\ UNCHANGED error
    /\ UNCHANGED <<environment, cooking_metrics, batch_registry, instants, stages,
                   callee, output>>

\* batch_registry = load_dataset(batch_path, ...).
LoadBatch ==
    /\ pc = "load_batch"
    /\ LET r == load_dataset(args.batch_registry, DateColumns)
       IN  IF r.exc # NoError
           THEN /\ Abort(r.exc, "Error loading the file")
                /\ UNCHANGED <<heap, batch_registry>>
           ELSE /\ heap' = Append(heap, r.rows)
                /\ batch_registry' = Len(heap) + 1
                /\ log' = Append(log, "Batch registry")
                /\ pc' = "parse_times"
                /\ UNCHANGED error
    /\ UNCHANGED <<environment, cooking_metrics, faulty_intervals, instants, stages,
                   callee, output>>

\* start_datetime and end_datetime from the command line's ISO texts.
ParseTimes ==
    /\ pc = "parse_times"
    /\ LET s == fromisoformat(args.start_time)
           e == fromisoformat(args.end_time)
       IN  IF s.exc # NoError
           THEN Abort(s.exc, "") /\ UNCHANGED instants
           ELSE IF e.exc # NoError
           THEN Abort(e.exc, "") /\ start_datetime' = s.value /\ UNCHANGED end_datetime
           ELSE /\ start_datetime' = s.value
                /\ end_datetime' = e.value
                /\ pc' = "filter_cooking"
                /\ UNCHANGED <<error, log>>
    /\ UNCHANGED <<environment, heap, loads, stages, callee, output>>

\* filtered_metrics = filter_cooking_data(cooking_metrics, machine_id, ...).
FilterCooking ==
    /\ pc = "filter_cooking"
    /\ heap' = filter_cooking_data(heap, cooking_metrics, args.machine,
                                   start_datetime, end_datetime)
    /\ filtered_metrics' = Len(heap')
    /\ log' = Append(log, "Cooking metrics filtered by timestamp")
    /\ pc' = "filter_faulty"
    /\ UNCHANGED <<environment, loads, instants, merged_data, hourly_avg_metrics,
                   result_dataset, callee, error, output>>

\* The call filter_faulty_intervals(faulty_intervals, filtered_metrics, machine_id):
\* the callee's name filtered_metrics is bound to the argument and rebound by
\* the loop; the caller's name still holds the argument.
FilterFaulty ==
    /\ pc = "filter_faulty"
    /\ LET s == FaultyLoop(heap, filtered_metrics, heap[faulty_intervals],
                           args.machine, 1)
       IN  heap' = s.heap /\ fi_metrics' = s.ref
    /\ pc' = "bind_filtered_metrics"
    /\ UNCHANGED <<environment, loads, instants, stages, error, log, output>>

\* The callee returns its frame and the caller rebinds filtered_metrics to it.
FilterFaultyReturn ==
    /\ pc = "bind_filtered_metrics"
    /\ filtered_metrics' = fi_metrics
    /\ log' = Append(log, "Cooking metrics filtered by timestamp and faulty intervals")
    /\ pc' = "merge"
    /\ UNCHANGED <<environment, heap, loads, instants, merged_data, hourly_avg_metrics,
                   result_dataset, callee, error, output>>

\* merged_data = pd_merge(filtered_metrics, batch_registry, on='batch_id').
Merge ==
    /\ pc = "merge"
    /\ heap' = Append(heap, pd_merge(heap[filtered_metrics], heap[batch_registry]))
    /\ merged_data' = Len(heap')
    /\ log' = Append(log, "Cooking metrics merged with batch registry")
    /\ pc' = "group"
    /\ UNCHANGED <<environment, loads, instants, filtered_metrics, hourly_avg_metrics,
                   result_dataset, callee, error, output>>

\* hourly_avg_metrics = group_by_hourly_average_cooking_metrics(merged_data).
Group ==
    /\ pc = "group"
    /\ heap' = Append(heap, group_by_hourly_average_cooking_metrics(heap[merged_data]))
    /\ hourly_avg_metrics' = Len(heap')
    /\ log' = Append(log, "Hourly average metrics")
    /\ pc' = "filter_type"
    /\ UNCHANGED <<environment, loads, instants, filtered_metrics, merged_data,
                   result_dataset, callee, error, output>>

\* result_dataset = filter_by_arepa_type(hourly_avg_metrics, arepa_type_name).
FilterType ==
    /\ pc = "filter_type"
    /\ heap' = filter_by_arepa_type(heap, hourly_avg_metrics, args.arepa_type)
    /\ result_dataset' = Len(heap')
    /\ log' = Append(log, "Final dataset filtered by arepa_type")
    /\ pc' = "save"
    /\ UNCHANGED <<environment, loads, instants, filtered_metrics, merged_data,
                   hourly_avg_metrics, callee, error, output>>

\* final_dataset.to_csv(args.output, index=False), inside try/except
\* PermissionError, and the closing record.
Save ==
    /\ pc = "save"
    /\ IF writable
       THEN /\ output' = Append(output, heap[result_dataset])
            /\ log' = log \o <<"Training dataset saved",
                                "Training dataset generation completed successfully">>
            /\ pc' = "done"
            /\ UNCHANGED error
       ELSE /\ Abort([type |-> "PermissionError", path |-> "output"],
                     "Error saving the file")
            /\ UNCHANGED output
    /\ UNCHANGED <<environment, heap, loads, instants, stages, callee>>

Next ==
    \/ LoadCooking
    \/ LoadFaulty
    \/ LoadBatch
    \/ ParseTimes
    \/ FilterCooking
    \/ FilterFaulty
    \/ FilterFaultyReturn
    \/ Merge
    \/ Group
    \/ FilterType
    \/ Save

\* Every family of inputs holds the runs that fail beside its own.
InitScenario == InitFrom(ScenarioInputs) \/ InitFrom(FailingInputs)

InitWindow == InitFrom(WindowInputs) \/ InitFrom(FailingInputs)

InitFaulty == InitFrom(FaultyInputs) \/ InitFrom(FailingInputs)

InitJoin == InitFrom(JoinInputs) \/ InitFrom(FailingInputs)

InitAgg == InitFrom(AggInputs) \/ InitFrom(FailingInputs)

Init ==
    \/ InitFrom(ScenarioInputs)
    \/ InitFrom(FailingInputs)
    \/ InitFrom(WindowInputs)
    \/ InitFrom(FaultyInputs)
    \/ InitFrom(JoinInputs)
    \/ InitFrom(AggInputs)

Spec == Init /\ [][Next]_vars

SpecScenario == InitScenario /\ [][Next]_vars

SpecWindow == InitWindow /\ [][Next]_vars

SpecFaulty == InitFaulty /\ [][Next]_vars

SpecJoin == InitJoin /\ [][Next]_vars

SpecAgg == InitAgg /\ [][Next]_vars

-----------------------------------------------------------------------------
(* Notions the properties are stated with.                                   *)

\* ts is an instant of the closed range [lo, hi].
InClosedRange(ts, lo, hi) ==
    ts # NaT /\ lo # NaT /\ hi # NaT /\ lo <= ts /\ ts <= hi

\* a can be had from b by deleting rows.
RECURSIVE IsSubsequence(_, _)
IsSubsequence(a, b) ==
    IF a = <<>> THEN TRUE
    ELSE IF b = <<>> THEN FALSE
    ELSE IF a[1] = b[1] THEN IsSubsequence(Tail(a), Tail(b))
    ELSE IsSubsequence(a, Tail(b))

Range(f) == {f[i] : i \in DOMAIN f}

RowOrders(n) == {p \in [1..n -> 1..n] : \A i, j \in 1..n : i # j => p[i] # p[j]}

\* How often x occurs in the table t.
Occurrences(t, x) == Cardinality({i \in 1..Len(t) : t[i] = x})

SameRowsAnyOrder(a, b) ==
    /\ Len(a) = Len(b)
    /\ \A x \in Range(a) \cup Range(b) : Occurrences(a, x) = Occurrences(b, x)

-----------------------------------------------------------------------------
(* C1: filter_cooking_data keeps a row iff its machine_id is the target      *)
(* machine and start <= timestamp <= end, both ends included; a row with a   *)
(* missing timestamp is never kept; the kept rows are in the input's order.  *)
C1_TimeWindow ==
    pc = "filter_faulty" =>
        /\ heap[filtered_metrics] =
               SelectSeq(heap[cooking_metrics],
                         LAMBDA r : /\ r.machine_id = args.machine
                                    /\ r.timestamp # NaT
                                    /\ start_datetime <= r.timestamp
                                    /\ r.timestamp <= end_datetime)
        /\ \A i \in 1..Len(heap[filtered_metrics]) :
               heap[filtered_metrics][i].timestamp # NaT

\* Reached: of two rows, the one on the window's end is kept and the one with
\* no instant is dropped.
C1_Witness ==
    /\ pc = "filter_faulty"
    /\ start_datetime < end_datetime
    /\ Len(heap[cooking_metrics]) = 2
    /\ heap[cooking_metrics][1].timestamp = NaT
    /\ heap[cooking_metrics][1].machine_id = args.machine
    /\ Len(heap[filtered_metrics]) = 1
    /\ heap[filtered_metrics][1].timestamp = end_datetime

-----------------------------------------------------------------------------
\* The intervals of the target machine.
TargetIntervals ==
    SelectSeq(heap[faulty_intervals], LAMBDA iv : iv.machine_id = args.machine)

Faulty(r) ==
    \E k \in 1..Len(TargetIntervals) :
        InClosedRange(r.timestamp, TargetIntervals[k].start_time,
                      TargetIntervals[k].end_time)

(* C2: filter_faulty_intervals removes a row iff its timestamp is in the     *)
(* closed range of some interval of the given machine; intervals of other    *)
(* machines remove nothing; an interval of one instant removes only the rows *)
(* of that instant; with no interval the output is the input.                *)
C2_FaultyExclusion ==
    pc = "bind_filtered_metrics" =>
        /\ heap[fi_metrics] = SelectSeq(heap[filtered_metrics], LAMBDA r : ~Faulty(r))
        /\ TargetIntervals = <<>> => heap[fi_metrics] = heap[filtered_metrics]
        /\ heap[faulty_intervals] = <<>> => heap[fi_metrics] = heap[filtered_metrics]
        /\ (\A k \in 1..Len(TargetIntervals) :
                TargetIntervals[k].start_time = TargetIntervals[k].end_time)
           => \A i \in 1..Len(heap[filtered_metrics]) :
                  LET r == heap[filtered_metrics][i]
                  IN  r \notin Range(heap[fi_metrics])
                      => \E k \in 1..Len(TargetIntervals) :
                             r.timestamp = TargetIntervals[k].start_time

\* Reached: an interval of another machine covers a row that stays, and an
\* interval of one instant of the target machine removes the row of that instant.
C2_Witness ==
    /\ pc = "bind_filtered_metrics"
    /\ Len(heap[filtered_metrics]) = 2
    /\ Len(heap[fi_metrics]) = 1
    /\ \E k \in 1..Len(heap[faulty_intervals]) :
           LET iv == heap[faulty_intervals][k]
           IN  /\ iv.machine_id # args.machine
               /\ InClosedRange(heap[fi_metrics][1].timestamp, iv.start_time, iv.end_time)
    /\ \E k \in 1..Len(TargetIntervals) :
           /\ TargetIntervals[k].start_time = TargetIntervals[k].end_time
           /\ \E i \in 1..2 :
                  heap[filtered_metrics][i].timestamp = TargetIntervals[k].start_time

-----------------------------------------------------------------------------
\* The frames of the call in the order the passes made them: the argument,
\* then one frame per pass over an interval of the target machine.
PassFrames == [k \in 1..(Len(heap) - filtered_metrics + 1) |->
                 heap[filtered_metrics + k - 1]]

\* Intervals made of the ends of the table's intervals that share an instant
\* with an interval of the target machine and cover only rows already covered.
OverlappingAdditions ==
    LET F == heap[faulty_intervals]
    IN  {c \in {IntervalRow(args.machine, F[a].start_time, F[b].end_time) :
                  a, b \in 1..Len(F)} :
           /\ \E k \in 1..Len(TargetIntervals) :
                  /\ InClosedRange(c.start_time, c.start_time, c.end_time)
                  /\ \/ InClosedRange(c.start_time, TargetIntervals[k].start_time,
                                       TargetIntervals[k].end_time)
                     \/ InClosedRange(TargetIntervals[k].start_time, c.start_time,
                                       c.end_time)
           /\ \A i \in 1..Len(heap[filtered_metrics]) :
                  InClosedRange(heap[filtered_metrics][i].timestamp,
                                c.start_time, c.end_time)
                  => Faulty(heap[filtered_metrics][i])}

(* C8: the result of filter_faulty_intervals is the same for every order of  *)
(* the interval rows, with a copy of an interval added, and with an interval *)
(* added that overlaps an existing one and covers no further row; a row one  *)
(* pass removed is in no later pass's frame.                                 *)
C8_OrderIndependent ==
    pc = "bind_filtered_metrics" =>
        LET F == heap[faulty_intervals]
            M == heap[filtered_metrics]
        IN  /\ \A p \in RowOrders(Len(F)) :
                   filter_faulty_intervals([i \in 1..Len(F) |-> F[p[i]]], M, args.machine)
                   = heap[fi_metrics]
            /\ \A k \in 1..Len(F) :
                   /\ filter_faulty_intervals(Append(F, F[k]), M, args.machine)
                      = heap[fi_metrics]
                   /\ filter_faulty_intervals(<<F[k]>> \o F, M, args.machine)
                      = heap[fi_metrics]
            /\ \A c \in OverlappingAdditions :
                   /\ filter_faulty_intervals(Append(F, c), M, args.machine)
                      = heap[fi_metrics]
                   /\ filter_faulty_intervals(<<c>> \o F, M, args.machine)
                      = heap[fi_metrics]
            /\ \A k \in 1..(Len(PassFrames) - 1) :
                   IsSubsequence(PassFrames[k + 1], PassFrames[k])
            /\ PassFrames[Len(PassFrames)] = heap[fi_metrics]

\* Reached: two overlapping intervals of the target machine, each removing a
\* row the other does not, the second pass working on what the first left.
C8_Witness ==
    /\ pc = "bind_filtered_metrics"
    /\ Len(TargetIntervals) = 2
    /\ Len(PassFrames) = 3
    /\ Len(PassFrames[1]) = 2 /\ Len(PassFrames[2]) = 1 /\ Len(PassFrames[3]) = 0
    /\ InClosedRange(TargetIntervals[2].start_time, TargetIntervals[1].start_time,
                     TargetIntervals[1].end_time)
    /\ OverlappingAdditions # {}

-----------------------------------------------------------------------------
UniqueBatchIds(registry) ==
    \A i, j \in 1..Len(registry) : i # j => registry[i].batch_id # registry[j].batch_id

\* The arepa_type the registry gives the batch.
TypeOfBatch(registry, b) ==
    (CHOOSE e \in Range(registry) : e.batch_id = b).arepa_type

Matched(registry, r) == \E e \in Range(registry) : e.batch_id = r.batch_id

\* The metric rows with a registry entry, each with the entry's type.
ExpectedJoin(metrics, registry) ==
    LET m == SelectSeq(metrics, LAMBDA r : Matched(registry, r))
    IN  [k \in 1..Len(m) |->
           [machine_id |-> m[k].machine_id, timestamp |-> m[k].timestamp,
            batch_id |-> m[k].batch_id, metric_1 |-> m[k].metric_1,
            metric_2 |-> m[k].metric_2,
            arepa_type |-> TypeOfBatch(registry, m[k].batch_id)]]

(* C3: with unique batch_ids in the registry, the join has exactly one row   *)
(* for each metric row whose batch_id is in the registry and none for the    *)
(* others; the row carries the metric row's timestamp, metric_1 and metric_2 *)
(* and the registry entry's arepa_type.                                      *)
C3_JoinCardinality ==
    (pc = "group" /\ UniqueBatchIds(heap[batch_registry])) =>
        /\ Len(heap[merged_data])
           = Cardinality({i \in 1..Len(heap[filtered_metrics]) :
                            Matched(heap[batch_registry], heap[filtered_metrics][i])})
        /\ SameRowsAnyOrder(heap[merged_data],
                            ExpectedJoin(heap[filtered_metrics], heap[batch_registry]))

\* Reached: a registry of two distinct batches, one metric row with an entry
\* and one without, one joined row.
C3_Witness ==
    /\ pc = "group"
    /\ UniqueBatchIds(heap[batch_registry])
    /\ Len(heap[batch_registry]) = 2
    /\ Len(heap[filtered_metrics]) = 2
    /\ Matched(heap[batch_registry], heap[filtered_metrics][1])
    /\ ~Matched(heap[batch_registry], heap[filtered_metrics][2])
    /\ Len(heap[merged_data]) = 1
    /\ heap[merged_data][1].metric_1 = heap[filtered_metrics][1].metric_1

-----------------------------------------------------------------------------
\* The sum of the numerators of whole numbers.
RECURSIVE WholeSum(_)
WholeSum(xs) == IF xs = <<>> THEN 0 ELSE xs[1].num + WholeSum(Tail(xs))

\* m is the arithmetic mean of the values of xs that are present (all of them
\* whole numbers here), and missing when none is.
IsMeanOf(m, xs) ==
    LET present == SelectSeq(xs, LAMBDA x : x.den # 0)
    IN  IF present = <<>> THEN m.den = 0
        ELSE /\ m.den > 0
             /\ \A i \in 1..Len(present) : present[i].den = 1
             /\ m.num * Len(present) = m.den * WholeSum(present)

\* The aggregate row g is the row of the members of `rows` with the pair key.
IsGroupRow(g, rows, key) ==
    LET members == SelectSeq(rows, LAMBDA r :
                       r.timestamp - (r.timestamp % 60) = key[1] /\ r.arepa_type = key[2])
    IN  /\ g.timestamp = key[1]
        /\ g.arepa_type = key[2]
        /\ key[1] % 60 = 0
        /\ IsMeanOf(g.metric_1, [i \in 1..Len(members) |-> members[i].metric_1])
        /\ IsMeanOf(g.metric_2, [i \in 1..Len(members) |-> members[i].metric_2])

PairOf(r) == <<r.timestamp - (r.timestamp % 60), r.arepa_type>>

\* The aggregate `agg` is the partition of `rows` into its pairs.
IsPartitionInto(agg, rows) ==
    /\ \A i \in 1..Len(rows) :
           Cardinality({k \in 1..Len(agg) :
                          <<agg[k].timestamp, agg[k].arepa_type>> = PairOf(rows[i])}) = 1
    /\ \A k \in 1..Len(agg) :
           /\ \E i \in 1..Len(rows) : PairOf(rows[i]) = <<agg[k].timestamp, agg[k].arepa_type>>
           /\ IsGroupRow(agg[k], rows, <<agg[k].timestamp, agg[k].arepa_type>>)

NonNullTimestamps(rows) == \A i \in 1..Len(rows) : rows[i].timestamp # NaT

(* C4, as claimed: for a joined table with non-null timestamps the aggregate *)
(* has exactly one row per (hour-bucket, arepa_type) pair with a member and  *)
(* none for a pair without; every input row is in exactly one group; the row *)
(* has the bucket start and the means of the members' non-null values.       *)
C4_AsClaimed ==
    (pc = "filter_type" /\ NonNullTimestamps(heap[merged_data])) =>
        IsPartitionInto(heap[hourly_avg_metrics], heap[merged_data])

(* C4, amended: the same of the joined rows whose arepa_type is not missing; *)
(* a row with a missing arepa_type is in no group.                           *)
C4_Aggregation ==
    (pc = "filter_type" /\ NonNullTimestamps(heap[merged_data])) =>
        /\ IsPartitionInto(heap[hourly_avg_metrics],
                           SelectSeq(heap[merged_data], LAMBDA r : r.arepa_type # NaNStr))
        /\ \A k \in 1..Len(heap[hourly_avg_metrics]) :
               heap[hourly_avg_metrics][k].arepa_type # NaNStr

\* Reached: four joined rows, two of one hour and one product (one of them
\* with a missing metric_2) and two with a missing arepa_type; one aggregate row.
C4_Witness ==
    /\ pc = "filter_type"
    /\ Len(heap[merged_data]) = 4
    /\ Len(heap[hourly_avg_metrics]) = 1
    /\ \E i, j, k \in 1..4 :
           /\ i # j
           /\ PairOf(heap[merged_data][i]) = PairOf(heap[merged_data][j])
           /\ heap[merged_data][i].arepa_type # NaNStr
           /\ heap[merged_data][i].metric_2 = NaN
           /\ heap[merged_data][j].metric_2 # NaN
           /\ heap[merged_data][k].arepa_type = NaNStr

-----------------------------------------------------------------------------
\* The run's input is the scenario, its metric rows in any order.
IsScenarioRun ==
    /\ files[CookingPath].exists /\ files[FaultyPath].exists /\ files[BatchPath].exists
    /\ writable
    /\ Len(files[CookingPath].rows) = 3
    /\ Range(files[CookingPath].rows) = Range(ScenarioMetrics)
    /\ files[FaultyPath].rows = ScenarioFaulty
    /\ files[BatchPath].rows = ScenarioRegistry
    /\ args.machine = "M1" /\ args.arepa_type = "classic"
    /\ args.start_time = <<10, 0>> /\ args.end_time = <<12, 0>>

(* C5: the run on the scenario of section 8 (three M1 rows at 10:15, 10:45   *)
(* and 11:05, the faulty interval M1 11:00-11:30, the registry B1 classic,   *)
(* the window 10:00-12:00, the type classic) writes exactly one row,         *)
(* (10:00, classic, 2.5, 4.5); the 11:05 row is removed by the faulty        *)
(* interval before the bucketing, so there is no 11:00 bucket.               *)
C5_Scenario ==
    IsScenarioRun =>
        /\ pc = "bind_filtered_metrics" =>
               /\ \E i \in 1..Len(heap[filtered_metrics]) :
                      heap[filtered_metrics][i].timestamp = 11 * 60 + 5
               /\ \A i \in 1..Len(heap[fi_metrics]) :
                      heap[fi_metrics][i].timestamp # 11 * 60 + 5
        /\ hourly_avg_metrics # 0 =>
               \A k \in 1..Len(heap[hourly_avg_metrics]) :
                   heap[hourly_avg_metrics][k].timestamp # 11 * 60
        /\ pc \in {"save", "done"} =>
               heap[result_dataset] =
                   <<[timestamp |-> 10 * 60, arepa_type |-> "classic",
                      metric_1 |-> [num |-> 5, den |-> 2],
                      metric_2 |-> [num |-> 9, den |-> 2]]>>
        /\ pc \notin {"aborted"}
        /\ pc = "done" =>
               output = <<<<[timestamp |-> 10 * 60, arepa_type |-> "classic",
                             metric_1 |-> [num |-> 5, den |-> 2],
                             metric_2 |-> [num |-> 9, den |-> 2]]>>>>

\* Reached: the scenario's run is done, its rows given with 11:05 first.
C5_Witness ==
    /\ IsScenarioRun
    /\ pc = "done"
    /\ files[CookingPath].rows[1].timestamp = <<11, 5>>
    /\ Len(output) = 1 /\ Len(output[1]) = 1

-----------------------------------------------------------------------------
LoadOrder == <<CookingPath, FaultyPath, BatchPath>>

\* The positions in the order of the loads of the files that are missing.
MissingLoads == {k \in 1..3 : ~files[LoadOrder[k]].exists}

FirstMissing == CHOOSE k \in MissingLoads : \A j \in MissingLoads : k <= j

LoadRecords == <<"Cooking metrics", "Faulty intervals", "Batch registry">>

CompleteLog ==
    <<"Starting training dataset generation", "Cooking metrics", "Faulty intervals",
      "Batch registry", "Cooking metrics filtered by timestamp",
      "Cooking metrics filtered by timestamp and faulty intervals",
      "Cooking metrics merged with batch registry", "Hourly average metrics",
      "Final dataset filtered by arepa_type", "Training dataset saved",
      "Training dataset generation completed successfully">>

(* C6: when the file of one of the three loads is missing, its error leaves  *)
(* the program as it was raised, nothing after the failed load runs, nothing *)
(* is tried again and no output file is written; an output file is written   *)
(* only by a run whose loads and stages all completed, and then exactly one. *)
C6_FailFast ==
    /\ MissingLoads # {} =>
           /\ output = <<>>
           /\ pc \in {"load_cooking", "load_faulty", "load_batch", "aborted"}
           /\ Len(heap) < FirstMissing
           /\ filtered_metrics = 0 /\ merged_data = 0
           /\ hourly_avg_metrics = 0 /\ result_dataset = 0
           /\ pc = "aborted" =>
                  /\ error = [type |-> "FileNotFoundError", path |-> LoadOrder[FirstMissing]]
                  /\ log = <<"Starting training dataset generation">>
                           \o SubSeq(LoadRecords, 1, FirstMissing - 1)
                           \o <<"Error loading the file">>
                  /\ Len(heap) = FirstMissing - 1
    /\ Len(output) <= 1
    /\ output # <<>> =>
           /\ pc = "done"
           /\ MissingLoads = {}
           /\ error = NoError
           /\ log = CompleteLog
           /\ output = <<heap[result_dataset]>>
    /\ pc = "done" => Len(output) = 1

\* Reached: the cooking metrics were loaded, the faulty-interval file is
\* missing, and the run has ended on its error.
C6_Witness ==
    /\ pc = "aborted"
    /\ files[CookingPath].exists /\ ~files[FaultyPath].exists
    /\ error.type = "FileNotFoundError"
    /\ cooking_metrics = 1
    /\ output = <<>>

-----------------------------------------------------------------------------
(* C7: filter_by_arepa_type returns exactly the rows whose arepa_type is the *)
(* text asked for, byte for byte, in the input's order; filtering its output *)
(* again by the same text changes nothing; when no row has the type the      *)
(* result has no rows and no error is raised.                                *)
C7_TypeFilter ==
    pc = "save" =>
        /\ heap[result_dataset] =
               SelectSeq(heap[hourly_avg_metrics],
                         LAMBDA r : r.arepa_type = args.arepa_type)
        /\ LET again == filter_by_arepa_type(heap, result_dataset, args.arepa_type)
           IN  again[Len(again)] = heap[result_dataset]
        /\ (\A k \in 1..Len(heap[hourly_avg_metrics]) :
                heap[hourly_avg_metrics][k].arepa_type # args.arepa_type)
           => heap[result_dataset] = <<>>
        /\ error = NoError

\* Reached: the aggregate has a Classic row and a classic row; classic is
\* asked for and one row is returned.
C7_Witness ==
    /\ pc = "save"
    /\ args.arepa_type = "classic"
    /\ Len(heap[hourly_avg_metrics]) = 2
    /\ heap[hourly_avg_metrics][1].arepa_type = "Classic"
    /\ heap[hourly_avg_metrics][2].arepa_type = "classic"
    /\ Len(heap[result_dataset]) = 1

-----------------------------------------------------------------------------
\* The frame filter_cooking_data made: the first one after the three loads.
WindowFrame == heap[batch_registry + 1]

(* C9: no stage changes a table it was given: once a frame exists (a loaded  *)
(* table, an intermediate result) every later step leaves its rows, their    *)
(* values and their order as they are; the input files are left alone too.  *)
C9_InputsUnchanged ==
    [][/\ Len(heap') >= Len(heap)
       /\ \A o \in 1..Len(heap) : heap'[o] = heap[o]
       /\ files' = files]_vars

\* Reached: the faulty-interval filter and the type filter have each returned
\* fewer rows than they were given, and the frames they were given are whole.
C9_Witness ==
    /\ pc = "save"
    /\ Len(heap[filtered_metrics]) < Len(WindowFrame)
    /\ Len(heap[result_dataset]) < Len(heap[hourly_avg_metrics])
    /\ Len(heap[cooking_metrics]) = Len(files[CookingPath].rows)
    /\ WindowFrame = heap[cooking_metrics]
    /\ Len(WindowFrame) = 3

-----------------------------------------------------------------------------
Qualifies(r) ==
    /\ r.machine_id = args.machine
    /\ InClosedRange(r.timestamp, start_datetime, end_datetime)
    /\ ~Faulty(r)
    /\ \E e \in Range(heap[batch_registry]) :
           e.batch_id = r.batch_id /\ e.arepa_type = args.arepa_type

QualifyingRows == SelectSeq(heap[cooking_metrics], LAMBDA r : Qualifies(r))

HourOf(ts) == ts - (ts % 60)

(* C10: with unique batch_ids in the registry, the final table has a row for *)
(* the hour h iff some cooking-metrics row is of the target machine, inside  *)
(* the window, outside every faulty interval of the machine, of a batch      *)
(* whose type is the one asked for, and of hour h; it has one row per hour   *)
(* at most, every row of the type asked for, with the means of exactly those *)
(* rows; grouping the joined rows of the type gives the same table.          *)
C10_EndToEnd ==
    (pc = "save" /\ UniqueBatchIds(heap[batch_registry])) =>
        LET R == heap[result_dataset]
            Q == QualifyingRows
        IN  /\ \A i \in 1..Len(Q) : \E k \in 1..Len(R) : R[k].timestamp = HourOf(Q[i].timestamp)
            /\ \A k \in 1..Len(R) :
                   LET members == SelectSeq(Q, LAMBDA r : HourOf(r.timestamp) = R[k].timestamp)
                   IN  /\ members # <<>>
                       /\ R[k].arepa_type = args.arepa_type
                       /\ IsMeanOf(R[k].metric_1,
                                   [i \in 1..Len(members) |-> members[i].metric_1])
                       /\ IsMeanOf(R[k].metric_2,
                                   [i \in 1..Len(members) |-> members[i].metric_2])
            /\ \A k, l \in 1..Len(R) : k # l => R[k].timestamp # R[l].timestamp
            /\ R = group_by_hourly_average_cooking_metrics(
                       SelectSeq(heap[merged_data],
                                 LAMBDA r : r.arepa_type = args.arepa_type))

\* Reached: three cooking rows, two that qualify in one hour and one inside a
\* faulty interval of the machine; one row in the final table.
C10_Witness ==
    /\ pc = "save"
    /\ UniqueBatchIds(heap[batch_registry])
    /\ Len(heap[cooking_metrics]) = 3
    /\ Len(QualifyingRows) = 2
    /\ HourOf(QualifyingRows[1].timestamp) = HourOf(QualifyingRows[2].timestamp)
    /\ \E i \in 1..3 : Faulty(heap[cooking_metrics][i])
    /\ Len(heap[result_dataset]) = 1

=============================================================================
